---- MODULE Spec2Model ----
(***************************************************************************)
(* executeQuery (src/routines/executeQuery.js): one connection shared by   *)
(* NumCalls call slots.  Every call is an async function: its code runs    *)
(* to completion between two awaits, so `running` names the call whose     *)
(* synchronous code is on the stack (0: the event loop is idle) and a      *)
(* call is resumed only when the loop is idle.  A slot whose call has      *)
(* completed is entered again by the next call.                            *)
(*                                                                         *)
(* Interceptor hooks, getStackTrace and the execution routine are supplied *)
(* by the caller: the model draws their outcomes (return, throw, result)   *)
(* nondeterministically.  Hooks respect the read-only QueryType and result *)
(* types they are declared with: they do not mutate their arguments.       *)
(* Logging, the query id and the timestamps do not influence control flow  *)
(* and are left out; normaliseQueryValues lives in ../utilities, so the    *)
(* routine's arguments are recorded as sql and the query (argument 5).     *)
(*                                                                         *)
(* Each call keeps, besides the locals of executeQuery, a record of what   *)
(* it did: terminatedAtEntry (the flag as read at line 55), fired (the     *)
(* hooks and connection methods it called, in order), settled (how each    *)
(* awaited hook settled), routineResult / routineError (how the routine    *)
(* settled) and thrown (the exception the call ended with); unsettled and  *)
(* unhandled are the promises of beforeTransformQuery hooks, which line    *)
(* 112 does not await, that are pending and that were rejected.  The       *)
(* events "on" and "off" record how many notices the connection had        *)
(* emitted, the event "executionRoutine" the flag of the connection.       *)
(*                                                                         *)
(* Spec, SpecErrors and SpecResults run one call at a time and range over  *)
(* all SQL texts, all driver errors and all results (and more notices)     *)
(* respectively; SpecInterleaved interleaves the calls of all slots;       *)
(* SpecAsynchronous runs one call at a time with beforeTransformQuery      *)
(* hooks that may be asynchronous.                                         *)
(***************************************************************************)
EXTENDS Integers, Sequences, FiniteSets, TLC

NumCalls == 2
MaxInterceptors == 2
MaxSqlLen == 3
MaxValues == 1
MaxRows == 2
MaxNotices == 3
FewNotices == 1
MaxMessageLen == 2

Calls == 1..NumCalls

(***************************************************************************)
(* Values                                                                  *)
(***************************************************************************)
Null == [null |-> TRUE]
Undefined == "undefined"

Whitespace == {" "}
Chars == {" ", "$", "1"}

RECURSIVE SeqsUpTo(_, _)
SeqsUpTo(S, n) ==
  IF n = 0 THEN {<<>>}
  ELSE LET shorter == SeqsUpTo(S, n - 1)
       IN  shorter \cup {Append(s, x) : s \in {t \in shorter : Len(t) = n - 1}, x \in S}

SqlInputs == SeqsUpTo(Chars, MaxSqlLen)
ValueInputs == SeqsUpTo({0}, MaxValues)

RECURSIVE TrimStart(_)
TrimStart(s) ==
  IF s # <<>> /\ Head(s) \in Whitespace THEN TrimStart(Tail(s)) ELSE s

RECURSIVE TrimEnd(_)
TrimEnd(s) ==
  IF s # <<>> /\ s[Len(s)] \in Whitespace
    THEN TrimEnd(SubSeq(s, 1, Len(s) - 1))
    ELSE s

TrimStartOnly(s) == TrimStart(s)

\* String.prototype.trim
Trim(s) == TrimEnd(TrimStart(s))

(***************************************************************************)
(* Interceptors: an interceptor is the set of hooks it implements.         *)
(***************************************************************************)
HookNames ==
  {"beforeTransformQuery", "transformQuery", "beforeQueryExecution",
   "queryExecutionError", "afterQueryExecution", "transformRow",
   "beforeQueryResult"}

InterceptorKinds ==
  {HookNames,
   {"beforeTransformQuery", "transformQuery", "beforeQueryExecution"},
   {"queryExecutionError", "afterQueryExecution", "transformRow",
    "beforeQueryResult"}}

InterceptorLists ==
  UNION {[1..n -> InterceptorKinds] : n \in 0..MaxInterceptors}

(***************************************************************************)
(* Driver errors {code, message, constraint}.  A message is a sequence of  *)
(* fragments: === compares the whole message, includes() looks for one     *)
(* fragment inside it.                                                     *)
(***************************************************************************)
Codes == {"57P01", "57014", "23502", "23503", "23505", "23514", "42601"}

ConnectionTerminated == "Connection terminated"
StatementTimeout == "canceling statement due to statement timeout"
Fragments == {ConnectionTerminated, StatementTimeout, "ERROR"}

Messages == SeqsUpTo(Fragments, MaxMessageLen) \ {<<>>}
Constraints == {Undefined, "users_pkey"}

DriverErrors == [code : Codes, message : Messages, constraint : Constraints]

Includes(message, fragment) == \E k \in 1..Len(message) : message[k] = fragment

BackendTerminatedError(error) ==
  [kind |-> "BackendTerminatedError", originalError |-> error]
StatementTimeoutError(error) ==
  [kind |-> "StatementTimeoutError", originalError |-> error]
StatementCancelledError(error) ==
  [kind |-> "StatementCancelledError", originalError |-> error]
IntegrityConstraintViolationError(kind, error, constraint) ==
  [kind |-> kind, originalError |-> error, constraint |-> constraint]
InvalidInputError(message) ==
  [kind |-> "InvalidInputError", message |-> message]
InterceptorError(hook, i) ==
  [kind |-> "InterceptorError", hook |-> hook, interceptor |-> i]
StackTraceError == [kind |-> "StackTraceError"]

\* every failure of the routine is taken as a termination of the backend
IsTerminalAlways(error) == error.code \in Codes
IsTerminalByCodeOnly(error) == error.code = "57P01"

\* line 160
IsTerminal(error) ==
  error.code = "57P01" \/ error.message = <<ConnectionTerminated>>

ConstraintViolationKindShifted(code) ==
  CASE code = "23502" -> "NotNullIntegrityConstraintViolationError"
    [] code = "23503" -> "UniqueIntegrityConstraintViolationError"
    [] code = "23505" -> "ForeignKeyIntegrityConstraintViolationError"
    [] code = "23514" -> "CheckIntegrityConstraintViolationError"
    [] OTHER -> "none"

\* lines 174-188: the error class of a constraint-violation code
ConstraintViolationKind(code) ==
  CASE code = "23502" -> "NotNullIntegrityConstraintViolationError"
    [] code = "23503" -> "ForeignKeyIntegrityConstraintViolationError"
    [] code = "23505" -> "UniqueIntegrityConstraintViolationError"
    [] code = "23514" -> "CheckIntegrityConstraintViolationError"
    [] OTHER -> "none"

\* the constraint codes are tested before the termination of the backend
ClassifyConstraintFirst(error) ==
  IF ConstraintViolationKind(error.code) # "none"
    THEN IntegrityConstraintViolationError(
           ConstraintViolationKind(error.code), error, error.constraint)
  ELSE IF IsTerminal(error)
    THEN BackendTerminatedError(error)
  ELSE IF error.code = "57014" /\ Includes(error.message, StatementTimeout)
    THEN StatementTimeoutError(error)
  ELSE IF error.code = "57014"
    THEN StatementCancelledError(error)
  ELSE error
ClassifyCancelledFirst(error) ==
  IF IsTerminal(error)
    THEN BackendTerminatedError(error)
  ELSE IF error.code = "57014"
    THEN StatementCancelledError(error)
  ELSE IF error.code = "57014" /\ Includes(error.message, StatementTimeout)
    THEN StatementTimeoutError(error)
  ELSE IF ConstraintViolationKind(error.code) # "none"
    THEN IntegrityConstraintViolationError(
           ConstraintViolationKind(error.code), error, error.constraint)
  ELSE error

\* lines 160-190: the error the inner catch throws
Classify(error) ==
  IF IsTerminal(error)
    THEN BackendTerminatedError(error)
  ELSE IF error.code = "57014" /\ Includes(error.message, StatementTimeout)
    THEN StatementTimeoutError(error)
  ELSE IF error.code = "57014"
    THEN StatementCancelledError(error)
  ELSE IF ConstraintViolationKind(error.code) # "none"
    THEN IntegrityConstraintViolationError(
           ConstraintViolationKind(error.code), error, error.constraint)
  ELSE error

KindOf(error) ==
  IF "kind" \in DOMAIN error THEN error.kind
  ELSE IF "code" \in DOMAIN error THEN "unclassified"
  ELSE "none"

PreconditionErrorIgnoringFlag(flag, rawSql) ==
  IF Trim(rawSql) = <<>>
    THEN InvalidInputError("Unexpected SQL input. Query cannot be empty.")
  ELSE IF Trim(rawSql) = <<"$", "1">>
    THEN InvalidInputError("Unexpected SQL input. Query cannot be empty. Found only value binding.")
  ELSE Null

\* lines 55-65: the error executeQuery throws at entry, Null if none
PreconditionError(flag, rawSql) ==
  IF flag # Null
    THEN BackendTerminatedError(flag)
  ELSE IF Trim(rawSql) = <<>>
    THEN InvalidInputError("Unexpected SQL input. Query cannot be empty.")
  ELSE IF Trim(rawSql) = <<"$", "1">>
    THEN InvalidInputError("Unexpected SQL input. Query cannot be empty. Found only value binding.")
  ELSE Null

(***************************************************************************)
(* Results.  A result of the execution routine has rows (absent when       *)
(* streaming); a row is a sequence of marks, the first names the row and   *)
(* each transformRow hook appends its own.                                 *)
(***************************************************************************)
RowInputs == {<<"a">>, <<"b">>}

RoutineResults ==
  {[from |-> 0, hasRows |-> FALSE, rows |-> <<>>]}
    \cup {[from |-> 0, hasRows |-> TRUE, rows |-> rs] : rs \in SeqsUpTo(RowInputs, MaxRows)}

\* the non-empty result a beforeQueryExecution hook of interceptor i returns
InterceptorResult(i) == [from |-> i, hasRows |-> TRUE, rows |-> <<>>]

Mark(i) == ToString(i)

\* what the transformQuery hook of interceptor i returns for a query
TransformQueryHook(i, query) ==
  [sql |-> Append(query.sql, Mark(i)), values |-> Append(query.values, i)]

\* what the transformRow hook of interceptor i returns for a row
TransformRowHook(i, row) == Append(row, Mark(i))

(***************************************************************************)
(* State                                                                   *)
(***************************************************************************)
VARIABLES
  interceptors,         \* clientConfiguration.interceptors, the same for every call
  terminated,           \* connection.connection.slonik.terminated
  listeners,            \* calls whose noticeListener is attached to the connection
  calls,                \* per call: position and locals of executeQuery
  running,              \* the call whose synchronous code is executing, or 0
  emitted               \* notices the connection has emitted so far

vars == <<interceptors, terminated, listeners, calls, running, emitted>>

Implements(i, hook) == hook \in interceptors[i]

NoCall ==
  [pc |-> "idle", idx |-> 0, terminatedAtEntry |-> Null,
   rawSql |-> <<>>, values |-> <<>>, actualQuery |-> Null,
   routineResult |-> Null, routineError |-> Null, result |-> Null,
   notices |-> <<>>, error |-> Null, thrown |-> Null,
   fired |-> <<>>, settled |-> <<>>, unsettled |-> {}, unhandled |-> {}]

\* a hook or a connection method is called
Event(hook, i, arg) == [hook |-> hook, interceptor |-> i, arg |-> arg]

\* an awaited hook settles
Settlement(hook, i, outcome) == [hook |-> hook, interceptor |-> i, outcome |-> outcome]

Init ==
  /\ interceptors \in InterceptorLists
  /\ terminated = Null
  /\ listeners = {}
  /\ calls = [c \in Calls |-> NoCall]
  /\ running = 0
  /\ emitted = 0

Finished(c) == calls[c].pc \in {"idle", "returned", "threw"}

\* the call completes by throwing `error`
Throw(call, error) == [call EXCEPT !.pc = "threw", !.thrown = error]

\* lines 89-108: originalQuery, actualQuery and the context, then the first loop
Prepare(call) ==
  [call EXCEPT !.pc = "beforeTransformQuery", !.idx = 1,
               !.actualQuery = [sql |-> call.rawSql, values |-> call.values]]

(***************************************************************************)
(* executeQuery, lines 46-81: the preconditions and the stack trace        *)
(***************************************************************************)
Enter(c, captureStackTrace, rawSql, values) ==
  /\ running = 0
  /\ Finished(c)
  /\ LET call == [NoCall EXCEPT !.rawSql = rawSql, !.values = values,
                                !.terminatedAtEntry = terminated]
         error == PreconditionError(terminated, rawSql)
     IN  IF error # Null
           THEN /\ calls' = [calls EXCEPT ![c] = Throw(call, error)]
                /\ running' = 0
         ELSE IF captureStackTrace
           THEN /\ calls' = [calls EXCEPT ![c] = [call EXCEPT !.pc = "getStackTrace"]]
                /\ running' = 0
         ELSE /\ calls' = [calls EXCEPT ![c] = Prepare(call)]
              /\ running' = c
  /\ UNCHANGED <<interceptors, terminated, listeners, emitted>>

\* line 72 settles; when it resolves, lines 74-108 follow synchronously
GetStackTraceSettled(c, outcome) ==
  /\ running = 0
  /\ calls[c].pc = "getStackTrace"
  /\ IF outcome = "throw"
       THEN /\ calls' = [calls EXCEPT ![c] = Throw(calls[c], StackTraceError)]
            /\ running' = 0
       ELSE /\ calls' = [calls EXCEPT ![c] = Prepare(calls[c])]
            /\ running' = c
  /\ UNCHANGED <<interceptors, terminated, listeners, emitted>>

(***************************************************************************)
(* lines 110-134: the pre-execution hooks.  idx is the interceptor the     *)
(* loop is at; the first two loops are synchronous.  Line 112 drops what   *)
(* beforeTransformQuery returns: when the hook is asynchronous its promise *)
(* is left unsettled (`unsettled`) and the loop goes on; a rejection of it *)
(* reaches no handler (`unhandled`).                                       *)
(***************************************************************************)
BeforeTransformQuery(c, outcomes) ==
  /\ running = c
  /\ calls[c].pc = "beforeTransformQuery"
  /\ LET call == calls[c]
         i == call.idx
         invoked == [call EXCEPT !.fired = Append(@,
                       Event("beforeTransformQuery", i, [query |-> call.actualQuery]))]
     IN  IF i > Len(interceptors)
           THEN /\ calls' = [calls EXCEPT ![c] =
                       [call EXCEPT !.pc = "transformQuery", !.idx = 1]]
                /\ running' = c
         ELSE IF Implements(i, "beforeTransformQuery")
           THEN \E outcome \in outcomes :
                  CASE outcome = "return" ->
                         /\ calls' = [calls EXCEPT ![c] = [invoked EXCEPT !.idx = i + 1]]
                         /\ running' = c
                    [] outcome = "pending" ->
                         /\ calls' = [calls EXCEPT ![c] =
                                [invoked EXCEPT !.idx = i + 1,
                                                !.unsettled = @ \cup {i}]]
                         /\ running' = c
                    [] outcome = "throw" ->
                         /\ calls' = [calls EXCEPT ![c] =
                                Throw(invoked, InterceptorError("beforeTransformQuery", i))]
                         /\ running' = 0
         ELSE /\ calls' = [calls EXCEPT ![c] = [call EXCEPT !.idx = i + 1]]
              /\ running' = c
  /\ UNCHANGED <<interceptors, terminated, listeners, emitted>>

\* the promise an asynchronous beforeTransformQuery returned at line 112 settles
BeforeTransformQuerySettled(c, i, outcome) ==
  /\ running = 0
  /\ i \in calls[c].unsettled
  /\ calls' = [calls EXCEPT ![c] =
       [@ EXCEPT !.unsettled = @ \ {i},
                 !.unhandled = IF outcome = "throw" THEN @ \cup {i} ELSE @]]
  /\ UNCHANGED <<interceptors, terminated, listeners, running, emitted>>

TransformQueryInputOriginal(call, i) == [sql |-> call.rawSql, values |-> call.values]

\* line 118: the query handed to the transformQuery hook of interceptor i
TransformQueryInput(call, i) == call.actualQuery

TransformQuery(c) ==
  /\ running = c
  /\ calls[c].pc = "transformQuery"
  /\ LET call == calls[c]
         i == call.idx
         query == TransformQueryInput(call, i)
         invoked == [call EXCEPT !.fired = Append(@,
                       Event("transformQuery", i, [query |-> query]))]
     IN  IF i > Len(interceptors)
           THEN /\ calls' = [calls EXCEPT ![c] =
                       [call EXCEPT !.pc = "beforeQueryExecution", !.idx = 1]]
                /\ running' = c
         ELSE IF Implements(i, "transformQuery")
           THEN \E outcome \in {"return", "throw"} :
                  IF outcome = "return"
                    THEN /\ calls' = [calls EXCEPT ![c] =
                                [invoked EXCEPT !.idx = i + 1,
                                   !.actualQuery = TransformQueryHook(i, query)]]
                         /\ running' = c
                    ELSE /\ calls' = [calls EXCEPT ![c] =
                                Throw(invoked, InterceptorError("transformQuery", i))]
                         /\ running' = 0
         ELSE /\ calls' = [calls EXCEPT ![c] = [call EXCEPT !.idx = i + 1]]
              /\ running' = c
  /\ UNCHANGED <<interceptors, terminated, listeners, emitted>>

\* lines 124-126: the loop reaches interceptor idx and calls its hook, or
\* leaves the loop for lines 136-152
BeforeQueryExecution(c) ==
  /\ running = c
  /\ calls[c].pc = "beforeQueryExecution"
  /\ LET call == calls[c]
         i == call.idx
     IN  IF i > Len(interceptors)
           THEN /\ calls' = [calls EXCEPT ![c] = [call EXCEPT !.pc = "execute", !.idx = 0]]
                /\ running' = c
         ELSE IF Implements(i, "beforeQueryExecution")
           THEN /\ calls' = [calls EXCEPT ![c] =
                       [call EXCEPT !.pc = "awaitBeforeQueryExecution",
                          !.fired = Append(@, Event("beforeQueryExecution", i,
                                                    [query |-> call.actualQuery]))]]
                /\ running' = 0
         ELSE /\ calls' = [calls EXCEPT ![c] = [call EXCEPT !.idx = i + 1]]
              /\ running' = c
  /\ UNCHANGED <<interceptors, terminated, listeners, emitted>>

NeverShortCircuits(result) == FALSE

\* line 128: if (result)
ShortCircuits(result) == result # Null

\* lines 126-132: the awaited hook settles
BeforeQueryExecutionSettled(c, outcome) ==
  /\ running = 0
  /\ calls[c].pc = "awaitBeforeQueryExecution"
  /\ LET i == calls[c].idx
         call == [calls[c] EXCEPT !.settled = Append(@,
                    Settlement("beforeQueryExecution", i, outcome))]
         result == IF outcome = "result" THEN InterceptorResult(i) ELSE Null
     IN  IF outcome = "throw"
           THEN /\ calls' = [calls EXCEPT ![c] =
                       Throw(call, InterceptorError("beforeQueryExecution", i))]
                /\ running' = 0
         ELSE IF ShortCircuits(result)
           THEN /\ calls' = [calls EXCEPT ![c] =
                       [call EXCEPT !.pc = "returned", !.result = result]]
                /\ running' = 0
         ELSE /\ calls' = [calls EXCEPT ![c] =
                     [call EXCEPT !.pc = "beforeQueryExecution", !.idx = i + 1,
                                  !.result = result]]
              /\ running' = c
  /\ UNCHANGED <<interceptors, terminated, listeners, emitted>>

(***************************************************************************)
(* lines 136-193: the notice listener and the execution routine            *)
(***************************************************************************)
\* line 142: connection.on('notice', noticeListener)
On(attached, c) == attached \cup {c}

\* connection.removeAllListeners('notice')
OffAll(attached, c) == {}
OffNothing(attached, c) == attached

\* line 192: connection.off('notice', noticeListener)
Off(attached, c) == attached \ {c}

PushFront(notices, notice) == <<notice>> \o notices

\* line 139: notices.push(notice)
Push(notices, notice) == Append(notices, notice)

Execute(c) ==
  /\ running = c
  /\ calls[c].pc = "execute"
  /\ LET call == calls[c]
     IN  calls' = [calls EXCEPT ![c] =
           [call EXCEPT !.pc = "awaitExecutionRoutine",
              !.notices = <<>>,
              !.fired = @ \o <<Event("on", 0, [emitted |-> emitted]),
                               Event("executionRoutine", 0,
                                     [terminated |-> terminated,
                                      sql |-> call.actualQuery.sql,
                                      query |-> call.actualQuery])>>]]
  /\ listeners' = On(listeners, c)
  /\ running' = 0
  /\ UNCHANGED <<interceptors, terminated, emitted>>

\* the connection emits a notice: every attached noticeListener pushes it (139)
Notice(limit) ==
  /\ running = 0
  /\ emitted < limit
  /\ emitted' = emitted + 1
  /\ calls' = [c \in Calls |->
                 IF c \in listeners
                   THEN [calls[c] EXCEPT !.notices = Push(@, emitted + 1)]
                   ELSE calls[c]]
  /\ UNCHANGED <<interceptors, terminated, listeners, running>>

\* line 146 resolves; finally (192), then line 205
ExecutionRoutineResolved(c, routineResult) ==
  /\ running = 0
  /\ calls[c].pc = "awaitExecutionRoutine"
  /\ LET call == calls[c]
     IN  calls' = [calls EXCEPT ![c] =
           [call EXCEPT !.pc = "afterQueryExecution", !.idx = 1,
              !.routineResult = routineResult,
              !.result = [from |-> routineResult.from,
                          hasRows |-> routineResult.hasRows,
                          rows |-> routineResult.rows,
                          notices |-> call.notices],
              !.fired = Append(@, Event("off", 0, [emitted |-> emitted]))]]
  /\ listeners' = Off(listeners, c)
  /\ running' = c
  /\ UNCHANGED <<interceptors, terminated, emitted>>

\* line 146 rejects; the inner catch (153-190), finally (192), the outer catch (194)
ExecutionRoutineRejected(c, error) ==
  /\ running = 0
  /\ calls[c].pc = "awaitExecutionRoutine"
  /\ LET call == calls[c]
     IN  calls' = [calls EXCEPT ![c] =
           [call EXCEPT !.pc = "queryExecutionError", !.idx = 1,
              !.routineError = error,
              !.error = Classify(error),
              !.fired = Append(@, Event("off", 0, [emitted |-> emitted]))]]
  /\ terminated' = IF IsTerminal(error) THEN error ELSE terminated
  /\ listeners' = Off(listeners, c)
  /\ running' = c
  /\ UNCHANGED <<interceptors, emitted>>

(***************************************************************************)
(* lines 194-202: the outer catch                                          *)
(***************************************************************************)
Swallow(call) == [call EXCEPT !.pc = "returned"]

\* the outer catch throws the error the driver raised, not the classified one
RethrowOriginal(call) == Throw(call, call.routineError)

\* line 201: throw error
Rethrow(call) == Throw(call, call.error)

QueryExecutionError(c) ==
  /\ running = c
  /\ calls[c].pc = "queryExecutionError"
  /\ LET call == calls[c]
         i == call.idx
     IN  IF i > Len(interceptors)
           THEN /\ calls' = [calls EXCEPT ![c] = Rethrow(call)]
                /\ running' = 0
         ELSE IF Implements(i, "queryExecutionError")
           THEN /\ calls' = [calls EXCEPT ![c] =
                       [call EXCEPT !.pc = "awaitQueryExecutionError",
                          !.fired = Append(@, Event("queryExecutionError", i,
                                        [query |-> call.actualQuery,
                                         error |-> call.error]))]]
                /\ running' = 0
         ELSE /\ calls' = [calls EXCEPT ![c] = [call EXCEPT !.idx = i + 1]]
              /\ running' = c
  /\ UNCHANGED <<interceptors, terminated, listeners, emitted>>

QueryExecutionErrorSettled(c, outcome) ==
  /\ running = 0
  /\ calls[c].pc = "awaitQueryExecutionError"
  /\ LET i == calls[c].idx
         call == [calls[c] EXCEPT !.settled = Append(@,
                    Settlement("queryExecutionError", i, outcome))]
     IN  IF outcome = "throw"
           THEN /\ calls' = [calls EXCEPT ![c] =
                       Throw(call, InterceptorError("queryExecutionError", i))]
                /\ running' = 0
         ELSE /\ calls' = [calls EXCEPT ![c] =
                     [call EXCEPT !.pc = "queryExecutionError", !.idx = i + 1]]
              /\ running' = c
  /\ UNCHANGED <<interceptors, terminated, listeners, emitted>>

(***************************************************************************)
(* lines 207-239: the post-execution hooks                                 *)
(***************************************************************************)
AfterQueryExecution(c) ==
  /\ running = c
  /\ calls[c].pc = "afterQueryExecution"
  /\ LET call == calls[c]
         i == call.idx
     IN  IF i > Len(interceptors)
           THEN /\ calls' = [calls EXCEPT ![c] =
                       [call EXCEPT !.pc = "transformRow", !.idx = 1]]
                /\ running' = c
         ELSE IF Implements(i, "afterQueryExecution")
           THEN /\ calls' = [calls EXCEPT ![c] =
                       [call EXCEPT !.pc = "awaitAfterQueryExecution",
                          !.fired = Append(@, Event("afterQueryExecution", i,
                                        [query |-> call.actualQuery,
                                         result |-> call.result]))]]
                /\ running' = 0
         ELSE /\ calls' = [calls EXCEPT ![c] = [call EXCEPT !.idx = i + 1]]
              /\ running' = c
  /\ UNCHANGED <<interceptors, terminated, listeners, emitted>>

AfterQueryExecutionSettled(c, outcome) ==
  /\ running = 0
  /\ calls[c].pc = "awaitAfterQueryExecution"
  /\ LET i == calls[c].idx
         call == [calls[c] EXCEPT !.settled = Append(@,
                    Settlement("afterQueryExecution", i, outcome))]
     IN  IF outcome = "throw"
           THEN /\ calls' = [calls EXCEPT ![c] =
                       Throw(call, InterceptorError("afterQueryExecution", i))]
                /\ running' = 0
         ELSE /\ calls' = [calls EXCEPT ![c] =
                     [call EXCEPT !.pc = "afterQueryExecution", !.idx = i + 1]]
              /\ running' = c
  /\ UNCHANGED <<interceptors, terminated, listeners, emitted>>

\* the calls of one transformRow hook over rows 1..n, in map order
RowEvents(i, query, rows, n) ==
  [k \in 1..n |-> Event("transformRow", i, [query |-> query, row |-> rows[k]])]

MapRowsButLast(i, rows) ==
  [k \in 1..Len(rows) |-> IF k < Len(rows) THEN TransformRowHook(i, rows[k]) ELSE rows[k]]

\* lines 221-223: map(result.rows, (row) => transformRow(..., row, fields))
MapRows(i, rows) == [k \in 1..Len(rows) |-> TransformRowHook(i, rows[k])]

\* line 214: if (result.rows)
HasRows(result) == result.hasRows

\* lines 214-231; thrownAt is the row at which the hook throws, 0 if at none
TransformRow(c, thrownAt) ==
  /\ running = c
  /\ calls[c].pc = "transformRow"
  /\ LET call == calls[c]
         i == call.idx
         rows == call.result.rows
     IN  IF ~HasRows(call.result) \/ i > Len(interceptors)
           THEN /\ thrownAt = 0
                /\ calls' = [calls EXCEPT ![c] =
                       [call EXCEPT !.pc = "beforeQueryResult", !.idx = 1]]
         ELSE IF Implements(i, "transformRow")
           THEN /\ thrownAt <= Len(rows)
                /\ IF thrownAt = 0
                     THEN calls' = [calls EXCEPT ![c] =
                            [call EXCEPT !.idx = i + 1,
                               !.result = [call.result EXCEPT !.rows = MapRows(i, rows)],
                               !.fired = @ \o RowEvents(i, call.actualQuery, rows, Len(rows))]]
                     ELSE calls' = [calls EXCEPT ![c] =
                            Throw([call EXCEPT !.fired =
                                     @ \o RowEvents(i, call.actualQuery, rows, thrownAt)],
                                  InterceptorError("transformRow", i))]
         ELSE /\ thrownAt = 0
              /\ calls' = [calls EXCEPT ![c] = [call EXCEPT !.idx = i + 1]]
  /\ running' = IF calls'[c].pc = "threw" THEN 0 ELSE c
  /\ UNCHANGED <<interceptors, terminated, listeners, emitted>>

BeforeQueryResult(c) ==
  /\ running = c
  /\ calls[c].pc = "beforeQueryResult"
  /\ LET call == calls[c]
         i == call.idx
     IN  IF i > Len(interceptors)
           THEN /\ calls' = [calls EXCEPT ![c] = [call EXCEPT !.pc = "returned"]]
                /\ running' = 0
         ELSE IF Implements(i, "beforeQueryResult")
           THEN /\ calls' = [calls EXCEPT ![c] =
                       [call EXCEPT !.pc = "awaitBeforeQueryResult",
                          !.fired = Append(@, Event("beforeQueryResult", i,
                                        [query |-> call.actualQuery,
                                         result |-> call.result]))]]
                /\ running' = 0
         ELSE /\ calls' = [calls EXCEPT ![c] = [call EXCEPT !.idx = i + 1]]
              /\ running' = c
  /\ UNCHANGED <<interceptors, terminated, listeners, emitted>>

BeforeQueryResultSettled(c, outcome) ==
  /\ running = 0
  /\ calls[c].pc = "awaitBeforeQueryResult"
  /\ LET i == calls[c].idx
         call == [calls[c] EXCEPT !.settled = Append(@,
                    Settlement("beforeQueryResult", i, outcome))]
     IN  IF outcome = "throw"
           THEN /\ calls' = [calls EXCEPT ![c] =
                       Throw(call, InterceptorError("beforeQueryResult", i))]
                /\ running' = 0
         ELSE /\ calls' = [calls EXCEPT ![c] =
                     [call EXCEPT !.pc = "beforeQueryResult", !.idx = i + 1]]
              /\ running' = c
  /\ UNCHANGED <<interceptors, terminated, listeners, emitted>>

(***************************************************************************)
(* The steps of the calls in `slots`, with the inputs of the calls and the *)
(* outcomes of the execution routine drawn from the sets of `inputs`.      *)
(***************************************************************************)
Steps(slots, inputs) ==
  \/ \E c \in slots, captureStackTrace \in BOOLEAN,
        rawSql \in inputs.sqls, values \in inputs.values :
       Enter(c, captureStackTrace, rawSql, values)
  \/ \E c \in slots, outcome \in {"return", "throw"} : GetStackTraceSettled(c, outcome)
  \/ \E c \in slots : BeforeTransformQuery(c, inputs.outcomes)
  \/ \E c \in slots : TransformQuery(c)
  \/ \E c \in slots : BeforeQueryExecution(c)
  \/ \E c \in slots, outcome \in {"empty", "result", "throw"} :
       BeforeQueryExecutionSettled(c, outcome)
  \/ \E c \in slots : Execute(c)
  \/ Notice(inputs.notices)
  \/ \E c \in slots, routineResult \in inputs.results :
       ExecutionRoutineResolved(c, routineResult)
  \/ \E c \in slots, error \in inputs.errors : ExecutionRoutineRejected(c, error)
  \/ \E c \in slots : QueryExecutionError(c)
  \/ \E c \in slots, outcome \in {"return", "throw"} : QueryExecutionErrorSettled(c, outcome)
  \/ \E c \in slots : AfterQueryExecution(c)
  \/ \E c \in slots, outcome \in {"return", "throw"} : AfterQueryExecutionSettled(c, outcome)
  \/ \E c \in slots, thrownAt \in 0..MaxRows : TransformRow(c, thrownAt)
  \/ \E c \in slots : BeforeQueryResult(c)
  \/ \E c \in slots, outcome \in {"return", "throw"} : BeforeQueryResultSettled(c, outcome)

\* one input of each kind: a query, a result with one row, an error of every code
SomeSqls == {<<"1">>}
SomeValues == {<<0>>}
SomeResults ==
  {result \in RoutineResults : result.hasRows => result.rows = <<<<"a">>>>}
SomeErrors ==
  {error \in DriverErrors : error.message = <<"ERROR">> /\ error.constraint = "users_pkey"}

\* a terminal and an unclassified driver error
FewErrors == {error \in SomeErrors : error.code \in {"57P01", "42601"}}

\* terminal by its code, by its message and by both, and an unclassified error
TerminalErrors ==
  {error \in DriverErrors :
     /\ error.code \in {"57P01", "42601"}
     /\ error.message \in {<<ConnectionTerminated>>, <<"ERROR">>}
     /\ error.constraint = Undefined}

\* what a beforeTransformQuery hook does at line 112: it returns, it throws,
\* or it returns a promise that is still pending
Synchronous == {"return", "throw"}
Asynchronous == Synchronous \cup {"pending"}

\* one call at a time on the connection, with every SQL text and value list
Next ==
  Steps({1}, [sqls |-> SqlInputs, values |-> ValueInputs,
              results |-> SomeResults, errors |-> FewErrors,
              outcomes |-> Synchronous, notices |-> FewNotices])

Spec == Init /\ [][Next]_vars

\* one call at a time on the connection, with every driver error
NextErrors ==
  Steps({1}, [sqls |-> SomeSqls, values |-> SomeValues,
              results |-> SomeResults, errors |-> DriverErrors,
              outcomes |-> Synchronous, notices |-> FewNotices])

SpecErrors == Init /\ [][NextErrors]_vars

\* one call at a time on the connection, with every result of the routine
NextResults ==
  Steps({1}, [sqls |-> SomeSqls, values |-> SomeValues,
              results |-> RoutineResults, errors |-> SomeErrors,
              outcomes |-> Synchronous, notices |-> MaxNotices])

SpecResults == Init /\ [][NextResults]_vars

\* calls interleaved on the connection
NextInterleaved ==
  Steps(Calls, [sqls |-> SomeSqls, values |-> SomeValues,
                results |-> SomeResults, errors |-> TerminalErrors,
              outcomes |-> Synchronous, notices |-> FewNotices])

SpecInterleaved == Init /\ [][NextInterleaved]_vars

\* one call at a time on the connection, with asynchronous beforeTransformQuery hooks
NextAsynchronous ==
  \/ Steps({1}, [sqls |-> SomeSqls, values |-> SomeValues,
                 results |-> SomeResults, errors |-> FewErrors,
                 outcomes |-> Asynchronous, notices |-> FewNotices])
  \/ \E i \in 1..MaxInterceptors, outcome \in Synchronous :
       BeforeTransformQuerySettled(1, i, outcome)

SpecAsynchronous == Init /\ [][NextAsynchronous]_vars
(***************************************************************************)
(* Properties                                                              *)
(***************************************************************************)
Started(c) == calls[c].pc # "idle"

EventsOf(call, hook) == SelectSeq(call.fired, LAMBDA e : e.hook = hook)

HooksFired(call) == {call.fired[k].hook : k \in DOMAIN call.fired}

\* the text consists of white space only
IsBlank(sql) == \A k \in DOMAIN sql : sql[k] = " "

\* the text is $1, possibly surrounded by white space
IsOnlyBinding(sql) ==
  \E k \in DOMAIN sql :
    /\ k < Len(sql)
    /\ sql[k] = "$"
    /\ sql[k + 1] = "1"
    /\ \A j \in DOMAIN sql \ {k, k + 1} : sql[j] = " "

\* C1, as stated: a call whose SQL is empty or $1 after trimming fails with
\* InvalidInput whatever the state of the connection, fires no hook, does not
\* invoke the execution routine and registers no notice listener.
C1_AsStated ==
  \A c \in Calls :
    Started(c) /\ (IsBlank(calls[c].rawSql) \/ IsOnlyBinding(calls[c].rawSql)) =>
      /\ calls[c].pc = "threw"
      /\ KindOf(calls[c].thrown) = "InvalidInputError"
      /\ calls[c].fired = <<>>
      /\ c \notin listeners

\* C1, amended: such a call fails with InvalidInput when the termination flag
\* is unset at entry and with BackendTerminated (carrying the flag) when it is
\* set; either way no hook fires, the execution routine is not invoked and no
\* notice listener is registered.
C1_InvalidInput ==
  \A c \in Calls :
    Started(c) /\ (IsBlank(calls[c].rawSql) \/ IsOnlyBinding(calls[c].rawSql)) =>
      /\ calls[c].pc = "threw"
      /\ IF calls[c].terminatedAtEntry = Null
           THEN KindOf(calls[c].thrown) = "InvalidInputError"
           ELSE calls[c].thrown = BackendTerminatedError(calls[c].terminatedAtEntry)
      /\ calls[c].fired = <<>>
      /\ calls[c].routineResult = Null /\ calls[c].routineError = Null
      /\ c \notin listeners

C1_Witness ==
  \E c \in Calls :
    /\ calls[c].pc = "threw"
    /\ calls[c].rawSql = <<"$", "1", " ">>
    /\ calls[c].terminatedAtEntry = Null
    /\ KindOf(calls[c].thrown) = "InvalidInputError"
    /\ Len(interceptors) = 2

\* C2: a call entered while the termination flag is set fails with
\* BackendTerminated carrying exactly the stored error; no hook fires, the
\* execution routine is not invoked, no notice listener is registered and the
\* flag keeps its value.
C2_Terminated ==
  \A c \in Calls :
    Started(c) /\ calls[c].terminatedAtEntry # Null =>
      /\ calls[c].pc = "threw"
      /\ calls[c].thrown = BackendTerminatedError(calls[c].terminatedAtEntry)
      /\ calls[c].fired = <<>>
      /\ calls[c].settled = <<>>
      /\ calls[c].routineResult = Null /\ calls[c].routineError = Null
      /\ c \notin listeners
      /\ terminated = calls[c].terminatedAtEntry

C2_Witness ==
  \E c \in Calls :
    /\ calls[c].pc = "threw"
    /\ calls[c].terminatedAtEntry # Null
    /\ ~IsBlank(calls[c].rawSql) /\ ~IsOnlyBinding(calls[c].rawSql)
    /\ Len(interceptors) = 2

OriginalQuery(call) == [sql |-> call.rawSql, values |-> call.values]

\* the query after the transformQuery hooks of interceptors 1..n
RECURSIVE Chain(_, _)
Chain(query, n) ==
  IF n = 0 THEN query
  ELSE IF Implements(n, "transformQuery")
    THEN TransformQueryHook(n, Chain(query, n - 1))
  ELSE Chain(query, n - 1)

\* C8: the transformQuery hooks run in registration order, the first on a copy
\* of the original query and each next one on the query its predecessor
\* returned; the execution routine gets the sql and the query returned by the
\* last of them (the original query if there is none).
C8_TransformChain ==
  \A c \in Calls :
    LET call == calls[c]
        hooks == EventsOf(call, "transformQuery")
        routine == EventsOf(call, "executionRoutine")
        final == Chain(OriginalQuery(call), Len(interceptors))
    IN  /\ \A k \in DOMAIN hooks :
             /\ Implements(hooks[k].interceptor, "transformQuery")
             /\ hooks[k].arg.query = Chain(OriginalQuery(call), hooks[k].interceptor - 1)
             /\ k > 1 => hooks[k - 1].interceptor < hooks[k].interceptor
        /\ \A k \in DOMAIN routine :
             /\ {hooks[j].interceptor : j \in DOMAIN hooks}
                  = {i \in DOMAIN interceptors : Implements(i, "transformQuery")}
             /\ routine[k].arg.sql = final.sql
             /\ routine[k].arg.query = final

C8_Witness ==
  \E c \in Calls :
    /\ Len(EventsOf(calls[c], "transformQuery")) = 2
    /\ Len(EventsOf(calls[c], "executionRoutine")) = 1
    /\ calls[c].rawSql = <<" ", "1", "$">>
    /\ calls[c].values = <<0>>

\* the error the call ends with once the routine has failed: the classified
\* error, or the exception of the queryExecutionError hook that threw
HookThrew(call) ==
  /\ call.settled # <<>>
  /\ call.settled[Len(call.settled)].hook = "queryExecutionError"
  /\ call.settled[Len(call.settled)].outcome = "throw"

FailsWithClassifiedOrHookError(call) ==
  call.pc = "threw" =>
    IF HookThrew(call)
      THEN call.thrown = InterceptorError("queryExecutionError", call.idx)
      ELSE call.thrown = call.error

\* a call is entered in this step
Enters(c) == Finished(c) /\ calls'[c] # calls[c]

IsTerminalFailure(error) ==
  error.code = "57P01" \/ error.message = <<"Connection terminated">>

\* C3, as stated: a failure of the routine with code 57P01 or message
\* 'Connection terminated' sets the flag to the raw error and the call fails
\* with BackendTerminated; a call entered with the flag set fails with
\* BackendTerminated and never reaches the routine.
C3_AsStated ==
  \A c \in Calls :
    /\ calls[c].routineError # Null /\ IsTerminalFailure(calls[c].routineError) =>
         /\ terminated = calls[c].routineError
         /\ calls[c].pc = "threw" => KindOf(calls[c].thrown) = "BackendTerminatedError"
    /\ Started(c) /\ calls[c].terminatedAtEntry # Null =>
         /\ calls[c].pc = "threw"
         /\ KindOf(calls[c].thrown) = "BackendTerminatedError"
         /\ EventsOf(calls[c], "executionRoutine") = <<>>

C3_FlagSet ==
  \A c \in Calls :
    calls[c].routineError # Null /\ IsTerminalFailure(calls[c].routineError) =>
      /\ terminated = calls[c].routineError
      /\ calls[c].error = BackendTerminatedError(calls[c].routineError)
      /\ FailsWithClassifiedOrHookError(calls[c])

C3_LaterCalls ==
  /\ terminated # Null => terminated' = terminated
  /\ \A c \in Calls :
       terminated # Null /\ Enters(c) =>
         /\ calls'[c].pc = "threw"
         /\ calls'[c].thrown = BackendTerminatedError(terminated)
         /\ EventsOf(calls'[c], "executionRoutine") = <<>>

\* C3, amended: such a failure sets the flag to the raw error and is classified
\* as BackendTerminated, which is what the call fails with unless a
\* queryExecutionError hook throws (the call then fails with the exception of
\* that hook); the flag then stays, and every call entered afterwards fails
\* with BackendTerminated without the routine being invoked for it.
C3_BackendTerminated == []C3_FlagSet /\ [][C3_LaterCalls]_vars

C3_Witness ==
  \E c \in Calls :
    /\ calls[c].pc = "threw"
    /\ calls[c].routineError # Null
    /\ calls[c].routineError.code = "23505"
    /\ calls[c].routineError.message = <<"Connection terminated">>
    /\ KindOf(calls[c].thrown) = "BackendTerminatedError"
    /\ terminated = calls[c].routineError

IsTimeoutMessage(message) ==
  \E k \in DOMAIN message : message[k] = "canceling statement due to statement timeout"

\* C4, as stated: a failure of the routine with code 57014 makes the call fail
\* with StatementTimeout if the message indicates a statement timeout and with
\* StatementCancelled for any other message.
C4_AsStated ==
  \A c \in Calls :
    /\ calls[c].routineError # Null
    /\ calls[c].routineError.code = "57014"
    /\ calls[c].pc = "threw"
    => KindOf(calls[c].thrown) =
         IF IsTimeoutMessage(calls[c].routineError.message)
           THEN "StatementTimeoutError"
           ELSE "StatementCancelledError"

\* C4, amended: a failure with code 57014 whose message is not exactly
\* 'Connection terminated' is classified as StatementTimeout if the message
\* contains the statement-timeout text and as StatementCancelled otherwise; the
\* call fails with that error unless a queryExecutionError hook throws (it then
\* fails with the exception of that hook).
C4_TimeoutOrCancelled ==
  \A c \in Calls :
    /\ calls[c].routineError # Null
    /\ calls[c].routineError.code = "57014"
    /\ calls[c].routineError.message # <<"Connection terminated">>
    => /\ calls[c].error =
            [kind |-> IF IsTimeoutMessage(calls[c].routineError.message)
                        THEN "StatementTimeoutError"
                        ELSE "StatementCancelledError",
             originalError |-> calls[c].routineError]
       /\ FailsWithClassifiedOrHookError(calls[c])

C4_Witness ==
  \E c \in Calls :
    /\ calls[c].pc = "threw"
    /\ calls[c].routineError # Null
    /\ calls[c].routineError.code = "57014"
    /\ calls[c].routineError.message =
         <<"ERROR", "canceling statement due to statement timeout">>
    /\ KindOf(calls[c].thrown) = "StatementTimeoutError"

ConstraintCodes == {"23502", "23503", "23505", "23514"}

KindOfCode(code) ==
  CASE code = "23502" -> "NotNullIntegrityConstraintViolationError"
    [] code = "23503" -> "ForeignKeyIntegrityConstraintViolationError"
    [] code = "23505" -> "UniqueIntegrityConstraintViolationError"
    [] code = "23514" -> "CheckIntegrityConstraintViolationError"

\* C5, as stated: a failure of the routine with one of the four
\* constraint-violation codes makes the call fail with the matching kind,
\* carrying the constraint name of the driver error.
C5_AsStated ==
  \A c \in Calls :
    /\ calls[c].routineError # Null
    /\ calls[c].routineError.code \in ConstraintCodes
    /\ calls[c].pc = "threw"
    => /\ KindOf(calls[c].thrown) = KindOfCode(calls[c].routineError.code)
       /\ calls[c].thrown.constraint = calls[c].routineError.constraint

\* C5, amended: a failure with one of the four constraint-violation codes
\* whose message is not exactly 'Connection terminated' is classified as the
\* matching kind, carrying the constraint name of the driver error; the call
\* fails with that error unless a queryExecutionError hook throws (it then
\* fails with the exception of that hook).
C5_ConstraintViolation ==
  \A c \in Calls :
    /\ calls[c].routineError # Null
    /\ calls[c].routineError.code \in ConstraintCodes
    /\ calls[c].routineError.message # <<"Connection terminated">>
    => /\ calls[c].error =
            [kind |-> KindOfCode(calls[c].routineError.code),
             originalError |-> calls[c].routineError,
             constraint |-> calls[c].routineError.constraint]
       /\ FailsWithClassifiedOrHookError(calls[c])

C5_Witness ==
  \E c \in Calls :
    /\ calls[c].pc = "threw"
    /\ calls[c].routineError # Null
    /\ calls[c].routineError.code = "23503"
    /\ KindOf(calls[c].thrown) = "ForeignKeyIntegrityConstraintViolationError"
    /\ calls[c].thrown.constraint = "users_pkey"

\* C6: a beforeQueryExecution hook that returns a non-empty result ends the
\* call, which returns exactly that result: it is the first non-empty result
\* in registration order, no later beforeQueryExecution hook runs, no listener
\* is registered, the execution routine is not invoked and no
\* afterQueryExecution, transformRow, beforeQueryResult or queryExecutionError
\* hook fires.
C6_ShortCircuit ==
  \A c \in Calls :
    \A k \in DOMAIN calls[c].settled :
      LET call == calls[c]
          i == call.settled[k].interceptor
      IN  call.settled[k].hook = "beforeQueryExecution"
            /\ call.settled[k].outcome = "result" =>
            /\ k = Len(call.settled)
            /\ \A j \in 1..(k - 1) : call.settled[j].outcome = "empty"
            /\ call.pc = "returned"
            /\ call.result = InterceptorResult(i)
            /\ call.fired[Len(call.fired)] =
                 Event("beforeQueryExecution", i, [query |-> call.actualQuery])
            /\ HooksFired(call) \subseteq
                 {"beforeTransformQuery", "transformQuery", "beforeQueryExecution"}
            /\ call.routineResult = Null /\ call.routineError = Null
            /\ c \notin listeners

C6_Witness ==
  \E c \in Calls :
    /\ calls[c].pc = "returned"
    /\ calls[c].result = InterceptorResult(1)
    /\ Len(interceptors) = 2
    /\ Implements(2, "beforeQueryExecution")
    /\ Implements(2, "beforeQueryResult")

\* C7: once a call has completed, by whatever exit path, its notice listener
\* is not attached to the connection.
C7_ListenerRemoved ==
  \A c \in Calls : Finished(c) => c \notin listeners

C7_Witness ==
  \E c \in Calls :
    /\ calls[c].pc = "threw"
    /\ EventsOf(calls[c], "on") # <<>>
    /\ calls[c].routineError # Null
    /\ KindOf(calls[c].routineError) = "unclassified"
    /\ calls[c].thrown = calls[c].routineError

\* the row after the transformRow hooks of interceptors 1..n
RECURSIVE Through(_, _)
Through(row, n) ==
  IF n = 0 THEN row
  ELSE IF Implements(n, "transformRow")
    THEN TransformRowHook(n, Through(row, n - 1))
  ELSE Through(row, n - 1)

\* C9: a call that returns the result of the routine returns, when that
\* result has rows, as many rows in the same order, each passed through every
\* transformRow hook in registration order; when it has no rows, no
\* transformRow hook has been invoked.
C9_TransformRow ==
  \A c \in Calls :
    LET call == calls[c]
    IN  call.pc = "returned" /\ call.routineResult # Null =>
          IF call.routineResult.hasRows
            THEN /\ call.result.hasRows
                 /\ call.result.rows =
                      [k \in 1..Len(call.routineResult.rows) |->
                         Through(call.routineResult.rows[k], Len(interceptors))]
            ELSE /\ ~call.result.hasRows
                 /\ "transformRow" \notin HooksFired(call)

C9_Witness ==
  \E c \in Calls :
    /\ calls[c].pc = "returned"
    /\ calls[c].routineResult # Null
    /\ calls[c].routineResult.rows = <<<<"b">>, <<"a">>>>
    /\ calls[c].result.rows = <<<<"b", "1", "2">>, <<"a", "1", "2">>>>

\* C10: once the execution routine has failed, the call never returns a
\* result: it ends by throwing, whether the queryExecutionError hooks return
\* or throw, and no afterQueryExecution, transformRow or beforeQueryResult
\* hook fires in it.
C10_FailureStays ==
  \A c \in Calls :
    calls[c].routineError # Null =>
      /\ calls[c].pc \in {"queryExecutionError", "awaitQueryExecutionError", "threw"}
      /\ calls[c].pc = "threw" => calls[c].thrown # Null
      /\ calls[c].result = Null
      /\ HooksFired(calls[c]) \cap
           {"afterQueryExecution", "transformRow", "beforeQueryResult"} = {}

C10_Witness ==
  \E c \in Calls :
    /\ calls[c].pc = "threw"
    /\ calls[c].routineError # Null
    /\ Len(calls[c].settled) = 2
    /\ calls[c].settled[1] = Settlement("queryExecutionError", 1, "return")
    /\ calls[c].settled[2] = Settlement("queryExecutionError", 2, "return")

(***************************************************************************)
(* C11: the queryExecutionError hooks                                      *)
(***************************************************************************)
\* the ordered table of the classification: rule k applies to the driver error
Rule(k, error) ==
  CASE k = 1 -> error.code = "57P01" \/ error.message = <<"Connection terminated">>
    [] k = 2 -> error.code = "57014" /\ IsTimeoutMessage(error.message)
    [] k = 3 -> error.code = "57014"
    [] k = 4 -> error.code = "23502"
    [] k = 5 -> error.code = "23503"
    [] k = 6 -> error.code = "23505"
    [] k = 7 -> error.code = "23514"
    [] k = 8 -> TRUE

FirstRule(error) ==
  CHOOSE k \in 1..8 : Rule(k, error) /\ \A j \in 1..(k - 1) : ~Rule(j, error)

RuleKind(k) ==
  CASE k = 1 -> "BackendTerminatedError"
    [] k = 2 -> "StatementTimeoutError"
    [] k = 3 -> "StatementCancelledError"
    [] k = 4 -> "NotNullIntegrityConstraintViolationError"
    [] k = 5 -> "ForeignKeyIntegrityConstraintViolationError"
    [] k = 6 -> "UniqueIntegrityConstraintViolationError"
    [] k = 7 -> "CheckIntegrityConstraintViolationError"
    [] k = 8 -> "unclassified"

\* the error the table raises for a driver error
Raised(error) ==
  LET k == FirstRule(error)
  IN  IF k = 8 THEN error
      ELSE IF k \in 4..7
        THEN [kind |-> RuleKind(k), originalError |-> error,
              constraint |-> error.constraint]
      ELSE [kind |-> RuleKind(k), originalError |-> error]

\* the interceptors that implement the hook, in registration order
Implementing(hook) ==
  SelectSeq([i \in 1..Len(interceptors) |-> i], LAMBDA i : hook \in interceptors[i])

SettlementsOf(call, hook) == SelectSeq(call.settled, LAMBDA e : e.hook = hook)

\* C11, as stated: whenever the execution routine fails, every interceptor
\* that implements queryExecutionError has the hook invoked exactly once, in
\* registration order, with the classified error, and the call then fails
\* with that same error.
C11_AsStated ==
  \A c \in Calls :
    LET call == calls[c]
        hooks == EventsOf(call, "queryExecutionError")
    IN  (call.routineError # Null /\ call.pc = "threw") =>
          /\ [k \in DOMAIN hooks |-> hooks[k].interceptor]
               = Implementing("queryExecutionError")
          /\ \A k \in DOMAIN hooks : hooks[k].arg.error = Raised(call.routineError)
          /\ call.thrown = Raised(call.routineError)

\* C11, amended: after a failure of the execution routine the
\* queryExecutionError hooks are invoked in registration order on the
\* interceptors that implement the hook, each at most once, each with the
\* classified error (the original one when no rule applies), and each is
\* settled before the next is invoked.  If none of them throws, every one of
\* them is invoked and the call fails with the classified error; the first
\* hook that throws ends the loop and the call fails with its exception.
C11_ErrorHooks ==
  \A c \in Calls :
    LET call == calls[c]
        hooks == EventsOf(call, "queryExecutionError")
        done == SettlementsOf(call, "queryExecutionError")
        all == Implementing("queryExecutionError")
        n == Len(hooks)
    IN  call.routineError # Null =>
          /\ n <= Len(all)
          /\ \A k \in 1..n :
               /\ hooks[k].interceptor = all[k]
               /\ hooks[k].arg.error = Raised(call.routineError)
          /\ Len(done) = IF call.pc = "awaitQueryExecutionError" THEN n - 1 ELSE n
          /\ \A k \in 1..Len(done) :
               /\ done[k].interceptor = hooks[k].interceptor
               /\ k < Len(done) => done[k].outcome = "return"
          /\ call.pc = "threw" =>
               IF n > 0 /\ done[n].outcome = "throw"
                 THEN call.thrown = [kind |-> "InterceptorError",
                                     hook |-> "queryExecutionError",
                                     interceptor |-> hooks[n].interceptor]
                 ELSE /\ n = Len(all)
                      /\ call.thrown = Raised(call.routineError)

C11_Witness ==
  \E c \in Calls :
    /\ calls[c].pc = "threw"
    /\ calls[c].routineError # Null
    /\ Len(EventsOf(calls[c], "queryExecutionError")) = 2
    /\ calls[c].thrown = Raised(calls[c].routineError)
    /\ KindOf(calls[c].thrown) = "UniqueIntegrityConstraintViolationError"

(***************************************************************************)
(* C12: the termination flag changes only on a terminal failure            *)
(***************************************************************************)
\* C12: the flag, once set, is never unset, and a step changes it only when
\* it is a failure of the execution routine with code 57P01 or message
\* 'Connection terminated', which stores that error; every other step of a
\* call (a success, a short-circuit, a failed precondition, another error of
\* the routine, an exception of a hook) leaves it unchanged.
C12_FlagMonotonic ==
  [][ /\ terminated # Null => terminated' # Null
      /\ terminated' # terminated =>
           \E c \in Calls :
             /\ calls[c].pc = "awaitExecutionRoutine"
             /\ calls[c].routineError = Null
             /\ calls'[c].routineError # Null
             /\ IsTerminalFailure(calls'[c].routineError)
             /\ terminated' = calls'[c].routineError ]_vars

\* the routine of a call failed with an error that is not terminal while the
\* flag, set by another call, stayed set
C12_Witness ==
  \E c \in Calls :
    /\ calls[c].pc = "threw"
    /\ calls[c].terminatedAtEntry = Null
    /\ calls[c].routineError # Null
    /\ ~IsTerminalFailure(calls[c].routineError)
    /\ terminated # Null

(***************************************************************************)
(* C13: the listener is gone when the first queryExecutionError hook runs  *)
(***************************************************************************)
\* C13: in every failing execution, classified or not, the notice listener
\* of the call has been removed (line 192) before the first
\* queryExecutionError hook is invoked, and it is not attached while the
\* hooks run.
C13_RemovedBeforeErrorHooks ==
  \A c \in Calls :
    LET call == calls[c]
    IN  /\ call.routineError # Null => c \notin listeners
        /\ \A k \in DOMAIN call.fired :
             call.fired[k].hook = "queryExecutionError" =>
               /\ c \notin listeners
               /\ \E j \in 1..(k - 1) :
                    /\ call.fired[j].hook = "off"
                    /\ \A l \in (j + 1)..(k - 1) : call.fired[l].hook # "on"

C13_Witness ==
  \E c \in Calls :
    /\ calls[c].pc = "awaitQueryExecutionError"
    /\ Len(EventsOf(calls[c], "queryExecutionError")) = 1
    /\ calls[c].routineError # Null
    /\ calls[c].error = calls[c].routineError
    /\ c \notin listeners

(***************************************************************************)
(* C14: the order of the hook points within one call                       *)
(***************************************************************************)
\* the place of a hook point in the order of C14
Phase(hook) ==
  CASE hook = "beforeTransformQuery" -> 1
    [] hook = "transformQuery" -> 2
    [] hook = "beforeQueryExecution" -> 3
    [] hook = "on" -> 4
    [] hook = "executionRoutine" -> 5
    [] hook = "off" -> 6
    [] hook = "queryExecutionError" -> 7
    [] hook = "afterQueryExecution" -> 7
    [] hook = "transformRow" -> 8
    [] hook = "beforeQueryResult" -> 9

InterceptorsOf(call, hook) ==
  LET events == EventsOf(call, hook)
  IN  [k \in DOMAIN events |-> events[k].interceptor]

\* the hook points fire in the fixed order, each over the interceptors in
\* registration order, skipping those that lack the hook, and a hook point
\* has gone over all its interceptors when a later one fires
C14_Order ==
  \A c \in Calls :
    LET call == calls[c]
        fired == call.fired
    IN  /\ \A j, k \in DOMAIN fired :
             j < k =>
               /\ Phase(fired[j].hook) <= Phase(fired[k].hook)
               /\ fired[j].hook = fired[k].hook =>
                    IF fired[j].hook = "transformRow"
                      THEN fired[j].interceptor <= fired[k].interceptor
                      ELSE fired[j].interceptor < fired[k].interceptor
        /\ \A k \in DOMAIN fired :
             /\ fired[k].hook \in HookNames => fired[k].hook \in interceptors[fired[k].interceptor]
             /\ \A hook \in {"beforeTransformQuery", "transformQuery",
                             "beforeQueryExecution", "afterQueryExecution"} :
                  Phase(hook) < Phase(fired[k].hook) =>
                    InterceptorsOf(call, hook) = Implementing(hook)
        /\ (call.pc = "returned" /\ call.routineResult # Null) =>
             InterceptorsOf(call, "beforeQueryResult") = Implementing("beforeQueryResult")

\* every hook that was invoked has completed when the next step begins
C14_StepsComplete ==
  \A c \in Calls :
    LET call == calls[c]
        fired == call.fired
    IN  /\ \A i \in call.unsettled :
             /\ fired # <<>>
             /\ fired[Len(fired)].hook = "beforeTransformQuery"
             /\ fired[Len(fired)].interceptor = i
        /\ \A k \in 1..(Len(fired) - 1) :
             fired[k].hook \in {"beforeQueryExecution", "queryExecutionError",
                                "afterQueryExecution", "beforeQueryResult"} =>
               Len(SettlementsOf(call, fired[k].hook))
                 >= Len(SelectSeq(SubSeq(fired, 1, k), LAMBDA e : e.hook = fired[k].hook))

\* C14, as stated: within one call the hook points fire in the fixed order
\* beforeTransformQuery, transformQuery, beforeQueryExecution, listener and
\* execution routine, then on success afterQueryExecution, transformRow,
\* beforeQueryResult, each over the interceptors in registration order, and
\* each step completes before the next begins.
C14_AsStated == C14_Order /\ C14_StepsComplete

(***************************************************************************)
(* C15: the notices of the result                                          *)
(***************************************************************************)
\* the notices the connection emitted after `from` notices and up to `to`
Emitted(from, to) == [k \in 1..(to - from) |-> from + k]

\* C15: when the execution routine of a call succeeds, with one execution in
\* flight on the connection, the notices of the result are exactly the
\* notices the connection emitted between the registration of the listener
\* and its removal, each once and in the order of emission; they are
\* attached to the result that every afterQueryExecution hook receives and
\* to the result the call returns.
C15_Notices ==
  \A c \in Calls :
    LET call == calls[c]
        on == EventsOf(call, "on")
        off == EventsOf(call, "off")
        after == EventsOf(call, "afterQueryExecution")
    IN  call.routineResult # Null =>
          /\ Len(on) = 1
          /\ Len(off) = 1
          /\ call.result.notices = Emitted(on[1].arg.emitted, off[1].arg.emitted)
          /\ \A k \in DOMAIN after :
               after[k].arg.result.notices = call.result.notices

\* a notice emitted before the registration is left out, two later ones are kept
C15_Witness ==
  \E c \in Calls :
    /\ calls[c].pc = "returned"
    /\ calls[c].routineResult # Null
    /\ EventsOf(calls[c], "afterQueryExecution") # <<>>
    /\ calls[c].result.notices = <<2, 3>>

(***************************************************************************)
(* C16: the classification is the first match of the ordered table         *)
(***************************************************************************)
\* C16: for every driver error the error raised by the classification is the
\* one of the first rule of the table that matches: (1) code 57P01 or
\* message 'Connection terminated', (2) code 57014 with the timeout message,
\* (3) code 57014, (4)-(7) the constraint codes, (8) the original error
\* unchanged; the error has exactly the kind of that rule, and the flag is
\* set, to the driver error, by rule 1 only.
C16_FirstMatch ==
  \A c \in Calls :
    LET call == calls[c]
    IN  call.routineError # Null =>
          /\ call.error = Raised(call.routineError)
          /\ KindOf(call.error) = RuleKind(FirstRule(call.routineError))
          /\ Cardinality({k \in 1..8 : KindOf(call.error) = RuleKind(k)}) = 1
          /\ terminated = IF Rule(1, call.routineError)
                            THEN call.routineError
                            ELSE call.terminatedAtEntry

\* rules 1 and 7 match, rule 1 decides
C16_Witness ==
  \E c \in Calls :
    /\ calls[c].routineError # Null
    /\ Rule(1, calls[c].routineError)
    /\ Rule(7, calls[c].routineError)
    /\ KindOf(calls[c].error) = "BackendTerminatedError"
    /\ terminated = calls[c].routineError

(***************************************************************************)
(* C17: the listeners of interleaved calls                                 *)
(***************************************************************************)
\* the call has registered its listener and is still inside the execution step
InExecutionStep(c) ==
  /\ Len(EventsOf(calls[c], "on")) > Len(EventsOf(calls[c], "off"))
  /\ calls[c].pc = "awaitExecutionRoutine"

C17_Attached == listeners = {c \in Calls : InExecutionStep(c)}

C17_OwnListener ==
  \A c \in listeners \ listeners' :
    /\ calls[c].pc = "awaitExecutionRoutine"
    /\ calls'[c].pc # "awaitExecutionRoutine"
    /\ \A d \in Calls \ {c} : calls'[d] = calls[d]

\* C17: with calls interleaved on one connection, in every reachable state
\* the listeners attached to the connection are exactly those of the calls
\* that have registered and are still inside the execution step, and a step
\* that removes a listener is the step of its own call leaving the execution
\* step; so no listener is left when the calls have failed or returned.
C17_Listeners == []C17_Attached /\ [][C17_OwnListener]_vars

\* both calls had their listener attached when the notice was emitted; one
\* has failed since, the other is still inside the execution step
C17_Witness ==
  \E c, d \in Calls :
    /\ c # d
    /\ calls[c].pc = "threw"
    /\ calls[c].routineError # Null
    /\ calls[c].notices = <<1>>
    /\ calls[d].notices = <<1>>
    /\ listeners = {d}

(***************************************************************************)
(* C18: the execution routine and the termination flag                     *)
(***************************************************************************)
\* C18, as stated: with calls interleaved on one connection the execution
\* routine is never invoked while the termination flag of the connection is
\* set, not even by a call that passed the check at entry before another
\* call set the flag.
C18_AsStated ==
  \A c \in Calls :
    LET routine == EventsOf(calls[c], "executionRoutine")
    IN  \A k \in DOMAIN routine : routine[k].arg.terminated = Null

\* C18, amended: the flag is read at entry only.  A call entered while the
\* flag is set fails at entry with BackendTerminated carrying the flag, fires
\* no hook and never invokes the execution routine; a call that passed the
\* check at entry before the flag was set still invokes the routine.
C18_EntryCheck ==
  \A c \in Calls :
    LET call == calls[c]
        routine == EventsOf(call, "executionRoutine")
    IN  /\ call.terminatedAtEntry # Null =>
             /\ call.pc = "threw"
             /\ call.thrown = [kind |-> "BackendTerminatedError",
                               originalError |-> call.terminatedAtEntry]
             /\ call.fired = <<>>
        /\ \A k \in DOMAIN routine :
             routine[k].arg.terminated # Null => call.terminatedAtEntry = Null

\* one call invoked the routine with the flag set, having passed the check
\* at entry; the other call was entered later and failed at entry
C18_Witness ==
  \E c, d \in Calls :
    /\ c # d
    /\ calls[c].terminatedAtEntry = Null
    /\ \E k \in DOMAIN calls[c].fired :
         /\ calls[c].fired[k].hook = "executionRoutine"
         /\ calls[c].fired[k].arg.terminated # Null
    /\ calls[d].terminatedAtEntry # Null
    /\ calls[d].pc = "threw"

(***************************************************************************)
(* C19: the cause stored in the termination flag                           *)
(***************************************************************************)
\* C19, as stated: the flag is written at most once; once it is set, no step
\* replaces its stored cause by another error, even when several calls in
\* flight on the connection each fail with a terminal error.
C19_AsStated == [][terminated # Null => terminated' = terminated]_vars

(***************************************************************************)
(* C20: queryExecutionError hooks and the exceptions of the other hooks    *)
(***************************************************************************)
PreExecutionHooks == {"beforeTransformQuery", "transformQuery", "beforeQueryExecution"}

\* the call has not touched the execution routine or the notice listener
Untouched(c) ==
  /\ HooksFired(calls[c]) \cap {"on", "executionRoutine", "off"} = {}
  /\ c \notin listeners

\* queryExecutionError hooks fire only after a failure of the execution
\* routine, at most once per interceptor
C20_OnlyExecutionFailures ==
  \A c \in Calls :
    LET hooks == InterceptorsOf(calls[c], "queryExecutionError")
    IN  /\ hooks # <<>> => calls[c].routineError # Null
        /\ \A j, k \in DOMAIN hooks : j # k => hooks[j] # hooks[k]

\* an exception that a hook throws into the call ends the call, with no
\* queryExecutionError hook invoked for it and, before the execution step,
\* with the routine and the listener untouched
C20_ExceptionsPropagate ==
  \A c \in Calls :
    LET call == calls[c]
    IN  /\ \A k \in DOMAIN call.settled :
             call.settled[k].outcome = "throw" =>
               /\ call.pc = "threw"
               /\ call.thrown = [kind |-> "InterceptorError",
                                 hook |-> call.settled[k].hook,
                                 interceptor |-> call.settled[k].interceptor]
        /\ (/\ call.pc = "threw"
            /\ KindOf(call.thrown) = "InterceptorError"
            /\ call.thrown.hook # "queryExecutionError") =>
             /\ EventsOf(call, "queryExecutionError") = <<>>
             /\ call.thrown.hook \in PreExecutionHooks => Untouched(c)

\* the exception of an asynchronous beforeTransformQuery hook ends the call too
C20_RejectionsPropagate ==
  \A c \in Calls :
    \A i \in calls[c].unhandled :
      /\ calls[c].pc = "threw"
      /\ calls[c].thrown = [kind |-> "InterceptorError",
                            hook |-> "beforeTransformQuery", interceptor |-> i]
      /\ Untouched(c)

\* C20, as stated: queryExecutionError hooks fire only for a failure of the
\* execution step, at most once per interceptor per call; an exception of
\* any other hook propagates to the caller without a queryExecutionError
\* hook being invoked and, when the hook is a pre-execution one, without the
\* execution routine or the notice listener being touched.
C20_AsStated ==
  /\ C20_OnlyExecutionFailures
  /\ C20_ExceptionsPropagate
  /\ C20_RejectionsPropagate
====
